---- MODULE Spec2Model ----
(***************************************************************************)
(* start_services.py: the deployment sequencer that updates the secrets of *)
(* .env, optionally resets the Supabase database directory, syncs the      *)
(* sparse Supabase checkout, copies .env into it, prepares the SearXNG     *)
(* settings, toggles cap_drop in docker-compose.yml, tears the project     *)
(* down and starts Supabase and then the local AI stack.                   *)
(*                                                                         *)
(* Text files are sequences of tokens.  A token is a record: a literal     *)
(* piece of text (cls = "lit", s = the text) or a generated secret         *)
(* (cls = "alnum" or "hex", n = its length in characters, k = the draw of  *)
(* the entropy source that produced it: every call draws afresh).  The     *)
(* literals are cut where the strings the script searches for overlap each *)
(* other, so that substring search and replacement on token sequences      *)
(* behave as on the text.                                                  *)
(***************************************************************************)
EXTENDS Integers, Sequences, FiniteSets, TLC

VARIABLES
    pc,            \* position of the running process in main()
    args,          \* the parsed command line
    runs,          \* the invocation of the script this is, counted from 1
    now,           \* time.time(), in seconds
    env,           \* the file .env
    supaEnv,       \* the file supabase/docker/.env
    dbData,        \* the directory supabase/docker/volumes/db/data
    backups,       \* the directories supabase/docker/volumes/db/data.backup.<ts>
    supabase,      \* the directory supabase: the git steps applied to it
    settingsBase,  \* the file searxng/settings-base.yml
    settings,      \* the file searxng/settings.yml
    manifest,      \* the file docker-compose.yml
    searxng,       \* the SearXNG container as the container runtime has it
    is_first_run,  \* the determination of check_and_fix_docker_compose_for_searxng
    trace,         \* the functions entered and the external commands run, with exit codes
    log,           \* the messages printed
    exitStatus     \* exit status of the process: -1 while it runs

vars == <<pc, args, runs, now, env, supaEnv, dbData, backups, supabase, settingsBase,
          settings, manifest, searxng, is_first_run, trace, log, exitStatus>>

-----------------------------------------------------------------------------
(* Bounds *)

\* invocations of the script against one working directory (SpecRuns)
MaxRuns == 2
\* lines of the .env files given to update_env_secrets (SpecEnv)
MaxEnvLines == 2
\* calls of update_env_secrets on one file (SpecEnv)
MaxCalls == 2
\* applications of the cap_drop toggle to one manifest (SpecToggle)
MaxToggles == 3

-----------------------------------------------------------------------------
(* Text *)

Lit(s) == [cls |-> "lit", n |-> 0, s |-> s, k |-> 0]

NL == Lit("\n")

\* s[i .. i+Len(p)-1] = p
MatchAt(s, p, i) ==
    /\ i + Len(p) - 1 <= Len(s)
    /\ \A j \in 1..Len(p) : s[i + j - 1] = p[j]

\* Python: p in s
Contains(s, p) == \E i \in 1..Len(s) : MatchAt(s, p, i)

\* Python: s.replace(old, new), leftmost occurrences first, not overlapping
RECURSIVE Replace(_, _, _)
Replace(s, old, new) ==
    IF s = <<>> THEN <<>>
    ELSE IF MatchAt(s, old, 1)
         THEN new \o Replace(SubSeq(s, Len(old) + 1, Len(s)), old, new)
         ELSE <<Head(s)>> \o Replace(Tail(s), old, new)

File(c) == [exists |-> TRUE, content |-> c]
NoFile == [exists |-> FALSE, content |-> <<>>]

Msg(m, a) == [msg |-> m, arg |-> a]

-----------------------------------------------------------------------------
(* Secrets of .env *)

generate_secret(length, seed) == [cls |-> "alnum", n |-> length, s |-> "", k |-> seed]

generate_hex_secret_short(length, seed) == [cls |-> "hex", n |-> length, s |-> "", k |-> seed]

\* secrets.token_hex(length): length random bytes, two hex digits each
generate_hex_secret(length, seed) == [cls |-> "hex", n |-> 2 * length, s |-> "", k |-> seed]

Eq == Lit("=")
SuperSecretKey == Lit("super-secret-key")

LogflarePublicKey == <<Lit("LOGFLARE_PUBLIC_ACCESS_TOKEN")>>
LogflarePrivateKey == <<Lit("LOGFLARE_PRIVATE_ACCESS_TOKEN")>>
VaultEncKey == <<Lit("VAULT_ENC_KEY")>>
N8nEncryptionKey == <<Lit("N8N_"), Lit("ENCRYPTION_KEY")>>
N8nJwtSecretKey == <<Lit("N8N_"), Lit("USER_MANAGEMENT_JWT_SECRET")>>
ClickhousePasswordKey == <<Lit("CLICKHOUSE_PASSWORD")>>
MinioRootPasswordKey == <<Lit("MINIO_ROOT_PASSWORD")>>
LangfuseSaltKey == <<Lit("LANGFUSE_SALT")>>
NextauthSecretKey == <<Lit("NEXTAUTH_SECRET")>>
EncryptionKeyKey == <<Lit("ENCRYPTION_KEY")>>

\* the replacements dict, in insertion order: old text and its replacement
Replacements(seed) == <<
    [old |-> LogflarePublicKey \o <<Eq, Lit("your-super-secret-and-long-logflare-key-public")>>,
     new |-> LogflarePublicKey \o <<Eq, generate_hex_secret(32, seed)>>],
    [old |-> LogflarePrivateKey \o <<Eq, Lit("your-super-secret-and-long-logflare-key-private")>>,
     new |-> LogflarePrivateKey \o <<Eq, generate_hex_secret(32, seed)>>],
    [old |-> VaultEncKey \o <<Eq, Lit("your-vault-encryption-key-32-chars-min")>>,
     new |-> VaultEncKey \o <<Eq, generate_secret(32, seed)>>],
    [old |-> N8nEncryptionKey \o <<Eq, SuperSecretKey>>,
     new |-> N8nEncryptionKey \o <<Eq, generate_hex_secret(32, seed)>>],
    [old |-> N8nJwtSecretKey \o <<Eq, Lit("even-more-secret")>>,
     new |-> N8nJwtSecretKey \o <<Eq, generate_hex_secret(32, seed)>>],
    [old |-> ClickhousePasswordKey \o <<Eq, SuperSecretKey, Lit("-1")>>,
     new |-> ClickhousePasswordKey \o <<Eq, generate_secret(32, seed)>>],
    [old |-> MinioRootPasswordKey \o <<Eq, SuperSecretKey, Lit("-2")>>,
     new |-> MinioRootPasswordKey \o <<Eq, generate_secret(32, seed)>>],
    [old |-> LangfuseSaltKey \o <<Eq, SuperSecretKey, Lit("-3")>>,
     new |-> LangfuseSaltKey \o <<Eq, generate_hex_secret(32, seed)>>],
    [old |-> NextauthSecretKey \o <<Eq, SuperSecretKey, Lit("-4")>>,
     new |-> NextauthSecretKey \o <<Eq, generate_hex_secret(32, seed)>>],
    [old |-> EncryptionKeyKey \o <<Eq, Lit("generate-with-openssl")>>,
     new |-> EncryptionKeyKey \o <<Eq, generate_hex_secret(32, seed)>> ] >>

\* Python: old_value.split('=')[0]
RECURSIVE KeyOf(_)
KeyOf(text) ==
    IF text = <<>> \/ Head(text) = Eq THEN <<>> ELSE <<Head(text)>> \o KeyOf(Tail(text))

\* one iteration of the loop "for old_value, new_value in replacements.items()"
ApplyReplacement(content, r) == Replace(content, r.old, r.new)

\* the loop over the replacements: the content and the "Updated: KEY" messages
RECURSIVE ApplyReplacements(_, _)
ApplyReplacements(content, reps) ==
    IF reps = <<>> THEN [content |-> content, updated |-> {}]
    ELSE LET r == Head(reps)
             hit == Contains(content, r.old)
             rest == ApplyReplacements(IF hit THEN ApplyReplacement(content, r) ELSE content,
                                       Tail(reps))
         IN [content |-> rest.content,
             updated |-> (IF hit THEN {Msg("Updated", KeyOf(r.old))} ELSE {}) \cup rest.updated]

\* update_env_secrets() on the file f: the file afterwards and the messages printed
update_env_secrets(f, seed) ==
    IF ~f.exists
    THEN [file |-> f, log |-> {Msg("Warning: .env file not found", <<>>)}]
    ELSE LET r == ApplyReplacements(f.content, Replacements(seed))
         IN IF r.updated # {}
            THEN [file |-> File(r.content),
                  log |-> r.updated \cup {Msg("Environment secrets updated successfully!", <<>>)}]
            ELSE [file |-> f,
                  log |-> {Msg("Environment secrets are already configured.", <<>>)}]

-----------------------------------------------------------------------------
(* The process *)

Profiles == {"cpu", "gpu-nvidia", "gpu-amd", "none"}
Environments == {"private", "public"}

\* argparse: every command line main() accepts
AllArgs == [profile : Profiles, environment : Environments,
            rebuild : BOOLEAN, reset_db : BOOLEAN]

\* argparse: no flag given
DefaultArgs == [profile |-> "cpu", environment |-> "private",
                rebuild |-> FALSE, reset_db |-> FALSE]

\* a function of the script is entered
Call(step) == [step |-> step, cmd |-> <<>>, rc |-> 0, t |-> now]
\* an external command (or a read of standard input) returned
Run(step, cmd, rc) == [step |-> step, cmd |-> cmd, rc |-> rc, t |-> now]

run_command_unchecked(rc) == FALSE

\* run_command: subprocess.run(check=True) raises CalledProcessError on a non-zero exit
run_command_raises(rc) == rc # 0

Min(S) == CHOOSE x \in S : \A y \in S : x <= y

\* how many of the commands with exit codes rcs are run before one raises
Executed(rcs) ==
    LET raising == {i \in DOMAIN rcs : run_command_raises(rcs[i])}
    IN IF raising = {} THEN Len(rcs) ELSE Min(raising)

\* the commands run in order until one raises: their events
Events(step, cmds, rcs) ==
    [i \in 1..Executed(rcs) |-> Run(step, cmds[i], rcs[i])]

\* an exception propagated out of main(): the last command run raised
Raised(rcs) == rcs # <<>> /\ run_command_raises(rcs[Executed(rcs)])

main_teardown_after_start(step, a) ==
    CASE step = "main" -> "update_env_secrets"
      [] step = "update_env_secrets" ->
            IF a.reset_db THEN "clean_supabase_database" ELSE "clone_supabase_repo"
      [] step = "clean_supabase_database" -> "clone_supabase_repo"
      [] step = "clone_supabase_repo" -> "prepare_supabase_env"
      [] step = "prepare_supabase_env" -> "generate_searxng_secret_key"
      [] step = "generate_searxng_secret_key" -> "check_and_fix_docker_compose_for_searxng"
      [] step = "check_and_fix_docker_compose_for_searxng" -> "start_supabase"
      [] step = "start_supabase" -> "stop_existing_containers"
      [] step = "stop_existing_containers" -> "time.sleep"
      [] step = "time.sleep" -> "start_local_ai"
      [] step = "start_local_ai" -> "exit"

\* main(): the statement that follows the call of step
main(step, a) ==
    CASE step = "main" -> "update_env_secrets"
      [] step = "update_env_secrets" ->
            IF a.reset_db THEN "clean_supabase_database" ELSE "clone_supabase_repo"
      [] step = "clean_supabase_database" -> "clone_supabase_repo"
      [] step = "clone_supabase_repo" -> "prepare_supabase_env"
      [] step = "prepare_supabase_env" -> "generate_searxng_secret_key"
      [] step = "generate_searxng_secret_key" -> "check_and_fix_docker_compose_for_searxng"
      [] step = "check_and_fix_docker_compose_for_searxng" -> "stop_existing_containers"
      [] step = "stop_existing_containers" -> "start_supabase"
      [] step = "start_supabase" -> "time.sleep"
      [] step = "time.sleep" -> "start_local_ai"
      [] step = "start_local_ai" -> "exit"

\* the call of step returned (raised = FALSE) or raised an exception nothing catches
Return(step, raised) ==
    IF raised
    THEN pc' = "exit" /\ exitStatus' = 1
    ELSE /\ pc' = main(step, args)
         /\ exitStatus' = IF main(step, args) = "exit" THEN 0 ELSE exitStatus

\* args = parser.parse_args(), the command line being one of S
ParseArgs(S) ==
    /\ pc = "main"
    /\ \E a \in S : args' = a
    /\ Return("main", FALSE)
    /\ UNCHANGED <<runs, now, env, supaEnv, dbData, backups, supabase, settingsBase,
                   settings, manifest, searxng, is_first_run, trace, log>>

UpdateEnvSecrets ==
    /\ pc = "update_env_secrets"
    /\ LET r == update_env_secrets(env, runs)
       IN /\ env' = r.file
          /\ log' = log \cup r.log
    /\ trace' = Append(trace, Call("update_env_secrets"))
    /\ Return("update_env_secrets", FALSE)
    /\ UNCHANGED <<args, runs, now, supaEnv, dbData, backups, supabase, settingsBase,
                   settings, manifest, searxng, is_first_run>>

-----------------------------------------------------------------------------
(* Database reset *)

\* what the operator may type at the prompt, character by character
Responses == { <<"y">>, <<"Y">>, <<" ", "y", " ">>, <<"y", "e", "s">>, <<"n">>, <<>> }

\* Python: str.lower(), on the characters the responses are made of
Lower(s) == [i \in 1..Len(s) |-> IF s[i] = "Y" THEN "y" ELSE s[i]]

\* Python: str.strip()
RECURSIVE Strip(_)
Strip(s) ==
    IF s = <<>> THEN s
    ELSE IF Head(s) = " " THEN Strip(Tail(s))
    ELSE IF s[Len(s)] = " " THEN Strip(SubSeq(s, 1, Len(s) - 1))
    ELSE s

response_as_typed(typed) == typed

\* input("Reset Supabase database? (y/N): ").lower().strip()
response(typed) == Strip(Lower(typed))

CleanSupabaseDatabase ==
    /\ pc = "clean_supabase_database"
    /\ IF dbData # <<>>
       THEN \E typed \in Responses :
              /\ trace' = trace \o <<Call("clean_supabase_database"),
                                     Run("input", typed, 0)>>
              /\ IF response(typed) = <<"y">>
                 THEN \* shutil.move(db_data_path, backup_path)
                      /\ backups' = backups \cup {[ts |-> now, data |-> dbData]}
                      /\ dbData' = <<>>
                      /\ log' = log \cup {Msg("Database data backed up to", <<>>)}
                 ELSE UNCHANGED <<backups, dbData, log>>
       ELSE /\ trace' = Append(trace, Call("clean_supabase_database"))
            /\ UNCHANGED <<backups, dbData, log>>
    /\ Return("clean_supabase_database", FALSE)
    /\ UNCHANGED <<args, runs, now, env, supaEnv, supabase, settingsBase, settings,
                   manifest, searxng, is_first_run>>

-----------------------------------------------------------------------------
(* Manifest sync *)

GitClone == <<"git", "clone", "--filter=blob:none", "--no-checkout",
              "https://github.com/supabase/supabase.git">>
GitSparseInit == <<"git", "sparse-checkout", "init", "--cone">>
GitSparseSet == <<"git", "sparse-checkout", "set", "docker">>
GitCheckout == <<"git", "checkout", "master">>
GitPull == <<"git", "pull">>

\* what git has done to the directory supabase once all four commands succeeded
ValidCheckout == {GitClone, GitSparseInit, GitSparseSet, GitCheckout}

clone_commands_checkout_first(exists) ==
    IF ~exists THEN <<GitClone, GitCheckout, GitSparseInit, GitSparseSet>> ELSE <<GitPull>>

\* clone_supabase_repo: the commands it runs, by os.path.exists("supabase")
clone_commands(exists) ==
    IF ~exists THEN <<GitClone, GitSparseInit, GitSparseSet, GitCheckout>> ELSE <<GitPull>>

\* the directory after the commands of the events that exited with 0: clone creates
\* it, the sparse-checkout commands and checkout act on it, pull leaves its
\* sparse-checkout state as it is
AfterGit(dir, events) ==
    dir \cup {events[i].cmd : i \in {j \in DOMAIN events :
                                       events[j].rc = 0 /\ events[j].cmd # GitPull}}

CloneSupabaseRepo ==
    /\ pc = "clone_supabase_repo"
    /\ LET cmds == clone_commands(supabase # {})
       IN \E rcs \in [1..Len(cmds) -> {0, 1}] :
            LET events == Events("clone_supabase_repo", cmds, rcs)
            IN /\ trace' = Append(trace, Call("clone_supabase_repo")) \o events
               /\ supabase' = AfterGit(supabase, events)
               /\ Return("clone_supabase_repo", Raised(rcs))
    /\ UNCHANGED <<args, runs, now, env, supaEnv, dbData, backups, settingsBase, settings,
                   manifest, searxng, is_first_run, log>>

-----------------------------------------------------------------------------
(* Config propagation *)

\* shutil.copyfile(".env", "supabase/docker/.env") raises when .env is missing or
\* the directory supabase/docker is: git checkout is what creates that directory
PrepareSupabaseEnv ==
    /\ pc = "prepare_supabase_env"
    /\ trace' = Append(trace, Call("prepare_supabase_env"))
    /\ LET copied == env.exists /\ GitCheckout \in supabase
       IN /\ supaEnv' = IF copied THEN File(env.content) ELSE supaEnv
          /\ Return("prepare_supabase_env", ~copied)
    /\ UNCHANGED <<args, runs, now, env, dbData, backups, supabase, settingsBase, settings,
                   manifest, searxng, is_first_run, log>>

-----------------------------------------------------------------------------
(* SearXNG settings *)

UltraSecretKey == <<Lit("ultrasecretkey")>>

\* searxng/settings-base.yml as shipped
SettingsTemplate == <<Lit("server: secret_key: "), Lit("ultrasecretkey"), NL>>

\* platform.system()
Systems == {"Windows", "Darwin", "Linux"}

\* the external commands of the platform's branch
substitution_commands(system) ==
    CASE system = "Windows" ->
           << <<"powershell", "-Command",
                "(Get-Content searxng/settings.yml) -replace 'ultrasecretkey', $secretKey | Set-Content searxng/settings.yml">> >>
      [] system = "Darwin" ->
           << <<"openssl", "rand", "-hex", "32">>,
              <<"sed", "-i", "", "s|ultrasecretkey|{random_key}|g", "searxng/settings.yml">> >>
      [] OTHER ->
           << <<"openssl", "rand", "-hex", "32">>,
              <<"sed", "-i", "s|ultrasecretkey|{random_key}|g", "searxng/settings.yml">> >>

\* the first of the commands with exit codes rcs that fails, or 0: subprocess.run
\* (check=True) and subprocess.check_output raise on a non-zero exit
FirstFailure(rcs) ==
    LET failing == {i \in DOMAIN rcs : rcs[i] # 0}
    IN IF failing = {} THEN 0 ELSE Min(failing)

substitution_except_reraises(failed) ==
    [raised |-> failed, log |-> {}]

\* the try ... except Exception of the substitution: what is printed, and whether
\* the exception leaves the function
substitution_except(failed) ==
    [raised |-> FALSE,
     log |-> IF failed
             THEN {Msg("Error generating SearXNG secret key", <<>>),
                   Msg("You may need to manually generate the secret key using the commands:", <<>>)}
             ELSE {Msg("SearXNG secret key generated successfully.", <<>>)}]

\* the try ... except Exception around shutil.copyfile(settings_base_path, settings_path)
seeding_except(failed) ==
    [raised |-> FALSE,
     log |-> IF failed THEN {Msg("Error creating settings.yml", <<>>)}
             ELSE {Msg("Created settings.yml from settings-base.yml", <<>>)}]

\* generate_searxng_secret_key() with the copy succeeding or not (copied), on the
\* platform system, its commands exiting with rcs, the entropy source drawing seed
generate_searxng_secret_key(copied, system, rcs, seed) ==
    IF ~settingsBase.exists
    THEN [settings |-> settings, events |-> <<>>, raised |-> FALSE,
          log |-> {Msg("Warning: SearXNG base settings file not found", <<>>)}]
    ELSE LET seeding == ~settings.exists
             s == IF seeding THEN seeding_except(~copied)
                  ELSE [raised |-> FALSE,
                        log |-> {Msg("SearXNG settings.yml already exists", <<>>)}]
             seeded == IF seeding /\ copied THEN File(settingsBase.content) ELSE settings
         IN IF seeding /\ ~copied
            THEN [settings |-> settings, events |-> <<>>, raised |-> s.raised, log |-> s.log]
            ELSE LET cmds == substitution_commands(system)
                     f == FirstFailure(rcs)
                     n == IF f = 0 THEN Len(cmds) ELSE f
                     x == substitution_except(f # 0)
                 IN [settings |-> IF f = 0
                                  THEN File(Replace(seeded.content, UltraSecretKey,
                                                    <<generate_hex_secret(32, seed)>>))
                                  ELSE seeded,
                     events |-> [i \in 1..n |-> Run("generate_searxng_secret_key",
                                                    cmds[i], rcs[i])],
                     raised |-> x.raised,
                     log |-> s.log \cup x.log]

GenerateSearxngSecretKey ==
    /\ pc = "generate_searxng_secret_key"
    /\ \E copied \in BOOLEAN, system \in Systems :
         \E rcs \in [1..Len(substitution_commands(system)) -> {0, 1}] :
           LET r == generate_searxng_secret_key(copied, system, rcs, runs)
           IN /\ settings' = r.settings
              /\ trace' = Append(trace, Call("generate_searxng_secret_key")) \o r.events
              /\ log' = log \cup r.log
              /\ Return("generate_searxng_secret_key", r.raised)
    /\ UNCHANGED <<args, runs, now, env, supaEnv, dbData, backups, supabase, settingsBase,
                   manifest, searxng, is_first_run>>

-----------------------------------------------------------------------------
(* cap_drop toggle *)

CapDrop == <<Lit("cap_drop: - ALL")>>
CapDropCommented ==
    <<Lit("# "), Lit("cap_drop: - ALL"), Lit("  # Temporarily commented out for first run")>>

\* docker-compose.yml with the directive active
ManifestTemplate == <<Lit("services: searxng: "), Lit("cap_drop: - ALL"), NL>>

\* standard output of docker exec ... "[ -f /etc/searxng/uwsgi.ini ] && echo 'found'
\* || echo 'not_found'", character by character; nothing when the exec fails
ExecStdout(container, ran) ==
    IF ~ran THEN <<>>
    ELSE IF container = "initialized"
         THEN <<"f", "o", "u", "n", "d", "\n">>
         ELSE <<"n", "o", "t", "_", "f", "o", "u", "n", "d", "\n">>

\* standard output of docker ps --filter name=searxng --format {{.Names}},
\* after .strip().split('\n')
PsNames(container) == IF container = "absent" THEN <<"">> ELSE <<"searxng">>

DockerPs == <<"docker", "ps", "--filter", "name=searxng", "--format", "{{.Names}}">>
DockerExec == <<"docker", "exec", "searxng", "sh", "-c",
                "[ -f /etc/searxng/uwsgi.ini ] && echo 'found' || echo 'not_found'">>

\* the docker commands of the inner try and their exit codes: 127 for a command
\* that could not be run
docker_events(container, ps, ex) ==
    <<Run("check_and_fix_docker_compose_for_searxng", DockerPs, IF ps = "error" THEN 1 ELSE 0)>>
    \o (IF ps = "ok" /\ \E i \in DOMAIN PsNames(container) : PsNames(container)[i] # ""
        THEN <<Run("check_and_fix_docker_compose_for_searxng", DockerExec,
                   CASE ex = "raise" -> 127 [] ex = "failed" -> 1 [] OTHER -> 0)>>
        ELSE <<>>)

\* the inner try of check_and_fix_docker_compose_for_searxng: the determination and
\* the message printed.  ps is "error" when docker ps exits non-zero or cannot be
\* run; ex is "raise" when docker exec cannot be run, "failed" when it exits
\* non-zero (check=False), "ok" when the shell ran in the container
detect_first_run(container, ps, ex) ==
    IF ps = "error"
    THEN [first |-> TRUE, msg |-> "Error checking Docker container - assuming first run"]
    ELSE IF \E i \in DOMAIN PsNames(container) : PsNames(container)[i] # ""
    THEN IF ex = "raise"
         THEN [first |-> TRUE, msg |-> "Error checking Docker container - assuming first run"]
         ELSE IF Contains(ExecStdout(container, ex = "ok"), <<"f", "o", "u", "n", "d">>)
         THEN [first |-> FALSE,
               msg |-> "Found uwsgi.ini inside the SearXNG container - not first run"]
         ELSE [first |-> TRUE,
               msg |-> "uwsgi.ini not found inside the SearXNG container - first run"]
    ELSE [first |-> TRUE, msg |-> "No running SearXNG container found - assuming first run"]

\* the two substitutions on the content of docker-compose.yml
cap_drop_toggle(content, first) ==
    IF first /\ Contains(content, CapDrop)
    THEN Replace(content, CapDrop, CapDropCommented)
    ELSE IF ~first /\ Contains(content, CapDropCommented)
    THEN Replace(content, CapDropCommented, CapDrop)
    ELSE content

\* the outer try ... except Exception of check_and_fix_docker_compose_for_searxng
toggle_except(failed) ==
    [raised |-> FALSE,
     log |-> IF failed
             THEN {Msg("Error checking/modifying docker-compose.yml for SearXNG", <<>>)}
             ELSE {}]

CheckAndFixDockerComposeForSearxng ==
    /\ pc = "check_and_fix_docker_compose_for_searxng"
    /\ IF ~manifest.exists
       THEN /\ log' = log \cup {Msg("Warning: Docker Compose file not found", <<>>)}
            /\ trace' = Append(trace, Call("check_and_fix_docker_compose_for_searxng"))
            /\ Return("check_and_fix_docker_compose_for_searxng", FALSE)
            /\ UNCHANGED <<manifest, is_first_run>>
       ELSE \E readable \in BOOLEAN, writable \in BOOLEAN,
               ps \in {"error", "ok"}, ex \in {"raise", "failed", "ok"} :
              IF ~readable
              THEN /\ log' = log \cup toggle_except(TRUE).log
                   /\ trace' = Append(trace, Call("check_and_fix_docker_compose_for_searxng"))
                   /\ Return("check_and_fix_docker_compose_for_searxng",
                             toggle_except(TRUE).raised)
                   /\ UNCHANGED <<manifest, is_first_run>>
              ELSE LET d == detect_first_run(searxng, ps, ex)
                       modified == cap_drop_toggle(manifest.content, d.first)
                       failed == modified # manifest.content /\ ~writable
                   IN /\ is_first_run' = d.first
                      /\ trace' = Append(trace, Call("check_and_fix_docker_compose_for_searxng"))
                                   \o docker_events(searxng, ps, ex)
                      /\ manifest' = IF modified # manifest.content /\ writable
                                     THEN File(modified) ELSE manifest
                      /\ log' = log \cup {Msg(d.msg, <<>>)} \cup toggle_except(failed).log
                      /\ Return("check_and_fix_docker_compose_for_searxng",
                                toggle_except(failed).raised)
    /\ UNCHANGED <<args, runs, now, env, supaEnv, dbData, backups, supabase, settingsBase,
                   settings, searxng>>

-----------------------------------------------------------------------------
(* Teardown and startup *)

\* stop_existing_containers: the docker compose command
stop_command(profile) ==
    <<"docker", "compose", "-p", "localai">>
    \o (IF profile # "none" THEN <<"--profile", profile>> ELSE <<>>)
    \o <<"-f", "docker-compose.yml", "down">>

\* start_supabase: the docker compose command
start_supabase_command(environment, rebuild) ==
    <<"docker", "compose", "-p", "localai", "-f", "supabase/docker/docker-compose.yml">>
    \o (IF environment = "public"
        THEN <<"-f", "docker-compose.override.public.supabase.yml">> ELSE <<>>)
    \o <<"up", "-d">>
    \o (IF rebuild THEN <<"--build">> ELSE <<>>)

start_local_ai_command_no_profile(profile, environment, rebuild) ==
    <<"docker", "compose", "-p", "localai">>
    \o <<"-f", "docker-compose.yml">>
    \o (IF environment = "private" THEN <<"-f", "docker-compose.override.private.yml">> ELSE <<>>)
    \o (IF environment = "public" THEN <<"-f", "docker-compose.override.public.yml">> ELSE <<>>)
    \o <<"up", "-d">>
    \o (IF rebuild THEN <<"--build">> ELSE <<>>)

\* start_local_ai: the docker compose command
start_local_ai_command(profile, environment, rebuild) ==
    <<"docker", "compose", "-p", "localai">>
    \o (IF profile # "none" THEN <<"--profile", profile>> ELSE <<>>)
    \o <<"-f", "docker-compose.yml">>
    \o (IF environment = "private" THEN <<"-f", "docker-compose.override.private.yml">> ELSE <<>>)
    \o (IF environment = "public" THEN <<"-f", "docker-compose.override.public.yml">> ELSE <<>>)
    \o <<"up", "-d">>
    \o (IF rebuild THEN <<"--build">> ELSE <<>>)

\* docker compose down removes the project's containers
StopExistingContainers ==
    /\ pc = "stop_existing_containers"
    /\ \E rc \in {0, 1} :
         LET rcs == <<rc>>
         IN /\ trace' = Append(trace, Call("stop_existing_containers"))
                         \o Events("stop_existing_containers", <<stop_command(args.profile)>>, rcs)
            /\ searxng' = IF rc = 0 THEN "absent" ELSE searxng
            /\ Return("stop_existing_containers", Raised(rcs))
    /\ UNCHANGED <<args, runs, now, env, supaEnv, dbData, backups, supabase, settingsBase,
                   settings, manifest, is_first_run, log>>

\* docker compose up -d of the Supabase stack: its db container initializes the
\* data directory when there is none
StartSupabase ==
    /\ pc = "start_supabase"
    /\ \E rc \in {0, 1} :
         LET rcs == <<rc>>
         IN /\ trace' = Append(trace, Call("start_supabase"))
                         \o Events("start_supabase",
                                   <<start_supabase_command(args.environment, args.rebuild)>>, rcs)
            /\ dbData' = IF rc = 0 /\ dbData = <<>> THEN <<now>> ELSE dbData
            /\ Return("start_supabase", Raised(rcs))
    /\ UNCHANGED <<args, runs, now, env, supaEnv, backups, supabase, settingsBase,
                   settings, manifest, searxng, is_first_run, log>>

SleepSeconds == 15

\* time.sleep(15)
Sleep ==
    /\ pc = "time.sleep"
    /\ trace' = Append(trace, Call("time.sleep"))
    /\ now' = now + SleepSeconds
    /\ Return("time.sleep", FALSE)
    /\ UNCHANGED <<args, runs, env, supaEnv, dbData, backups, supabase, settingsBase,
                   settings, manifest, searxng, is_first_run, log>>

\* docker compose up -d of the local AI stack: the SearXNG container runs, and has
\* written its uwsgi.ini or has not yet
StartLocalAi ==
    /\ pc = "start_local_ai"
    /\ \E rc \in {0, 1}, container \in {"uninitialized", "initialized"} :
         LET rcs == <<rc>>
         IN /\ trace' = Append(trace, Call("start_local_ai"))
                         \o Events("start_local_ai",
                                   <<start_local_ai_command(args.profile, args.environment,
                                                            args.rebuild)>>, rcs)
            /\ searxng' = IF rc = 0 THEN container ELSE searxng
            /\ Return("start_local_ai", Raised(rcs))
    /\ UNCHANGED <<args, runs, now, env, supaEnv, dbData, backups, supabase, settingsBase,
                   settings, manifest, is_first_run, log>>

\* the script is invoked again in the same working directory
Restart ==
    /\ pc = "exit"
    /\ runs < MaxRuns
    /\ runs' = runs + 1
    /\ pc' = "main"
    /\ exitStatus' = -1
    /\ trace' = <<>>
    /\ log' = {}
    /\ UNCHANGED <<args, now, env, supaEnv, dbData, backups, supabase, settingsBase,
                   settings, manifest, searxng, is_first_run>>

-----------------------------------------------------------------------------
(* Specifications *)

\* .env as shipped: every placeholder on a line of its own, and a line that is none
FreshEnv ==
    LET reps == Replacements(0)
        RECURSIVE Cat(_)
        Cat(i) == IF i > Len(reps) THEN <<>> ELSE reps[i].old \o <<NL>> \o Cat(i + 1)
    IN <<Lit("POSTGRES_PASSWORD"), Eq, Lit("your-super-secret-and-long-postgres-password"), NL>>
       \o Cat(1)

\* a working directory as cloned: no vendored directory, no settings.yml, no
\* containers; e is its .env, m its docker-compose.yml, n the value of runs
Fresh(e, m, n) ==
    /\ pc = "main"
    /\ args = DefaultArgs
    /\ runs = n
    /\ now = 0
    /\ env = e
    /\ supaEnv = NoFile
    /\ dbData = <<>>
    /\ backups = {}
    /\ supabase = {}
    /\ settingsBase = File(SettingsTemplate)
    /\ settings = NoFile
    /\ manifest = m
    /\ searxng = "absent"
    /\ is_first_run = TRUE
    /\ trace = <<>>
    /\ log = {}
    /\ exitStatus = -1

InitFresh == Fresh(File(FreshEnv), File(ManifestTemplate), 1)

\* one run of the script, in a working directory as cloned or as earlier runs and
\* the operator left it
Init ==
    /\ pc = "main"
    /\ args = DefaultArgs
    /\ runs = 1
    /\ now = 0
    /\ supaEnv = NoFile
    /\ backups = {}
    /\ settings = NoFile
    /\ \/ \* the shipped files are there; the vendored directory, the database
          \* and the container are as an earlier run left them, or are not there
          /\ env = File(FreshEnv)
          /\ settingsBase = File(SettingsTemplate)
          /\ manifest = File(ManifestTemplate)
          /\ dbData \in {<<>>, <<0>>}
          /\ supabase \in {{}, ValidCheckout}
          /\ searxng \in {"absent", "uninitialized", "initialized"}
       \/ \* one of the shipped files is missing
          /\ \E missing \in {".env", "settings-base.yml", "docker-compose.yml"} :
                /\ env = IF missing = ".env" THEN NoFile ELSE File(FreshEnv)
                /\ settingsBase = IF missing = "settings-base.yml"
                                  THEN NoFile ELSE File(SettingsTemplate)
                /\ manifest = IF missing = "docker-compose.yml"
                              THEN NoFile ELSE File(ManifestTemplate)
          /\ dbData = <<>>
          /\ supabase = {}
          /\ searxng = "absent"
    /\ is_first_run = TRUE
    /\ trace = <<>>
    /\ log = {}
    /\ exitStatus = -1

Steps ==
    \/ UpdateEnvSecrets
    \/ CleanSupabaseDatabase
    \/ CloneSupabaseRepo
    \/ PrepareSupabaseEnv
    \/ GenerateSearxngSecretKey
    \/ CheckAndFixDockerComposeForSearxng
    \/ StopExistingContainers
    \/ StartSupabase
    \/ Sleep
    \/ StartLocalAi

Next == ParseArgs(AllArgs) \/ Steps

Spec == Init /\ [][Next]_vars

\* the command lines of the repeated runs
RerunArgs == {a \in AllArgs : a.profile = "cpu" /\ a.environment = "private" /\ ~a.rebuild}

NextRuns == ParseArgs(RerunArgs) \/ Steps \/ Restart

SpecRuns == InitFresh /\ [][NextRuns]_vars

-----------------------------------------------------------------------------
(* update_env_secrets on its own: SpecEnv *)

Placeholder(k) == Replacements(0)[k].old

NPlaceholders == Len(Replacements(0))

\* lines of a .env file: each placeholder, placeholders with text before or after
\* them on the line, a placeholder in other case, values already set
EnvLines ==
    {Placeholder(k) : k \in 1..NPlaceholders}
    \cup { N8nEncryptionKey \o <<Eq, SuperSecretKey, Lit("-1")>>,
           <<Lit("N8N_")>> \o EncryptionKeyKey \o <<Eq, Lit("generate-with-openssl")>>,
           EncryptionKeyKey \o <<Eq, Lit("generate-with-openssl"),
                                 Lit(" # generate via openssl rand -hex 32")>>,
           <<Lit("encryption_key"), Eq, Lit("generate-with-openssl")>>,
           VaultEncKey \o <<Eq, Lit("a-key-of-the-operator")>>,
           <<Lit("POSTGRES_PASSWORD"), Eq, Lit("your-super-secret-and-long-postgres-password")>> }

\* the files of n lines
RECURSIVE EnvFiles(_)
EnvFiles(n) ==
    IF n = 0 THEN {<<>>}
    ELSE {l \o <<NL>> \o f : l \in EnvLines, f \in EnvFiles(n - 1)}

\* Python: content.split('\n')
RECURSIVE SplitLines(_)
SplitLines(s) ==
    IF s = <<>> THEN << <<>> >>
    ELSE LET rest == SplitLines(Tail(s))
         IN IF Head(s) = NL THEN << <<>> >> \o rest
            ELSE << <<Head(s)>> \o rest[1] >> \o Tail(rest)

\* runs counts the calls made
InitEnv ==
    \E n \in 0..MaxEnvLines : \E f \in EnvFiles(n) :
        Fresh(File(f), File(ManifestTemplate), 0)

CallUpdateEnvSecrets ==
    /\ runs < MaxCalls
    /\ LET r == update_env_secrets(env, runs + 1)
       IN /\ env' = r.file
          /\ log' = r.log
    /\ runs' = runs + 1
    /\ UNCHANGED <<pc, args, now, supaEnv, dbData, backups, supabase, settingsBase,
                   settings, manifest, searxng, is_first_run, trace, exitStatus>>

NextEnv == CallUpdateEnvSecrets

SpecEnv == InitEnv /\ [][NextEnv]_vars

-----------------------------------------------------------------------------
(* the cap_drop substitutions on their own: SpecToggle *)

\* services of a manifest: the directive active, commented out by the script,
\* commented out by hand, absent
ServiceBlocks ==
    { <<Lit("service: ")>> \o CapDrop \o <<NL>>,
      <<Lit("service: ")>> \o CapDropCommented \o <<NL>>,
      <<Lit("service: "), Lit("# ")>> \o CapDrop \o <<NL>>,
      <<Lit("service: "), NL>> }

\* services of the manifests given to the toggle
MaxServices == 2

RECURSIVE Manifests(_)
Manifests(n) ==
    IF n = 0 THEN {<<>>}
    ELSE {b \o m : b \in ServiceBlocks, m \in Manifests(n - 1)}

\* runs counts the applications made
InitToggle ==
    \E n \in 0..MaxServices : \E m \in Manifests(n) :
        Fresh(File(FreshEnv), File(m), 0)

ApplyToggle ==
    /\ runs < MaxToggles
    /\ \E first \in BOOLEAN :
         /\ is_first_run' = first
         /\ manifest' = File(cap_drop_toggle(manifest.content, first))
    /\ runs' = runs + 1
    /\ UNCHANGED <<pc, args, now, env, supaEnv, dbData, backups, supabase, settingsBase,
                   settings, searxng, trace, log, exitStatus>>

NextToggle == ApplyToggle

SpecToggle == InitToggle /\ [][NextToggle]_vars

-----------------------------------------------------------------------------
(* Properties *)

IsPrefix(a, b) == Len(a) <= Len(b) /\ SubSeq(b, 1, Len(a)) = a

IsCallEvent(e) == e.cmd = <<>> /\ e.step # "input"

\* the functions entered so far in this run, in order
StepNames ==
    LET calls == SelectSeq(trace, IsCallEvent)
    IN [i \in DOMAIN calls |-> calls[i].step]

\* the events the step being taken appends to the trace, its Call event left out
NewEvents == SubSeq(trace', Len(trace) + 2, Len(trace'))

NewCommands == [i \in DOMAIN NewEvents |-> NewEvents[i].cmd]

Order(reset) ==
    <<"update_env_secrets">>
    \o (IF reset THEN <<"clean_supabase_database">> ELSE <<>>)
    \o <<"clone_supabase_repo", "prepare_supabase_env", "generate_searxng_secret_key",
         "check_and_fix_docker_compose_for_searxng", "stop_existing_containers",
         "start_supabase", "time.sleep", "start_local_ai">>

IsCommandOf(e, step) == e.step = step /\ e.cmd # <<>>

\* C1: whatever the flags, the steps of a run are entered in the order secret
\* update, (reset when --reset-db), manifest sync, config propagation, settings,
\* toggle, teardown, start of Supabase, sleep, start of the local AI stack; the
\* Supabase start command is only issued after the teardown command exited with
\* 0, and the local AI start command only after the Supabase start command exited
\* with 0 and 15 seconds or more went by.
C1Order ==
    /\ IsPrefix(StepNames, Order(args.reset_db))
    /\ \A i \in DOMAIN trace :
         IsCommandOf(trace[i], "start_supabase") =>
           \E j \in 1..(i - 1) :
              IsCommandOf(trace[j], "stop_existing_containers") /\ trace[j].rc = 0
    /\ \A i \in DOMAIN trace :
         IsCommandOf(trace[i], "start_local_ai") =>
           \E j \in 1..(i - 1) :
              /\ IsCommandOf(trace[j], "start_supabase")
              /\ trace[j].rc = 0
              /\ trace[i].t >= trace[j].t + 15

C1Witness ==
    /\ exitStatus = 0
    /\ args = [profile |-> "gpu-amd", environment |-> "public",
               rebuild |-> TRUE, reset_db |-> TRUE]
    /\ StepNames = Order(TRUE)

IsFailFast(e) ==
    \/ IsCommandOf(e, "clone_supabase_repo")
    \/ IsCommandOf(e, "stop_existing_containers")
    \/ IsCommandOf(e, "start_supabase")
    \/ IsCommandOf(e, "start_local_ai")

\* C2: a git command of the sync, the teardown or either start that exits non-zero
\* is the last thing the run does: the process ends there with a non-zero status,
\* what the earlier git commands did to the vendored directory stays, and the
\* exit status is 0 only when every step through the local AI start completed.
C2FailFast ==
    /\ \A i \in DOMAIN trace :
         IsFailFast(trace[i]) /\ trace[i].rc # 0 =>
            i = Len(trace) /\ pc = "exit" /\ exitStatus = 1
    /\ \A i \in DOMAIN trace :
         IsCommandOf(trace[i], "clone_supabase_repo") /\ trace[i].rc = 0 =>
            trace[i].cmd = GitPull \/ trace[i].cmd \in supabase
    /\ pc = "exit" <=> exitStatus \in {0, 1}
    /\ exitStatus = 0 =>
         /\ StepNames = Order(args.reset_db)
         /\ IsCommandOf(trace[Len(trace)], "start_local_ai")
         /\ \A i \in DOMAIN trace : IsFailFast(trace[i]) => trace[i].rc = 0

C2Witness ==
    /\ exitStatus = 1
    /\ supabase = {GitClone}
    /\ trace[Len(trace)] = Run("clone_supabase_repo", GitSparseInit, 1)

IsGenerated(tok) ==
    \/ tok.cls = "alnum" /\ tok.n = 32
    \/ tok.cls = "hex" /\ tok.n = 64

C4Affirmative == { <<"y">>, <<"Y">>, <<" ", "y", " ">> }

C4Moved == dbData' = <<>> /\ backups' = backups \cup {[ts |-> now, data |-> dbData]}

C4Untouched == dbData' = dbData /\ backups' = backups

\* C4, as amended: with --reset-db and the data directory present, the directory
\* is moved to the backup path with the timestamp suffix exactly when the response
\* is "y" after lowercasing and stripping ("y", "Y", " y "), and is left untouched
\* for every other response; without --reset-db an existing data directory is
\* never touched.
C4ResetOnNormalizedY ==
    [][ /\ pc = "clean_supabase_database" /\ dbData # <<>> =>
             /\ args.reset_db
             /\ IF trace'[Len(trace')].cmd \in C4Affirmative THEN C4Moved ELSE C4Untouched
             /\ \A b \in backups' : b.ts \in Nat
        /\ pc # "main" /\ ~args.reset_db /\ dbData # <<>> => C4Untouched ]_vars

C4Witness ==
    /\ dbData = <<>>
    /\ backups = {[ts |-> 0, data |-> <<0>>]}
    /\ \E i \in DOMAIN trace : trace[i] = Run("input", <<"Y">>, 0)

\* C4, as claimed: with --reset-db and the data directory present, the directory
\* is moved exactly when the response is the lowercase string "y", and is left
\* untouched for "Y", " y ", "yes" or an empty response.
C4ResetOnExactY ==
    [][ pc = "clean_supabase_database" /\ dbData # <<>> =>
          IF trace'[Len(trace')].cmd = <<"y">> THEN C4Moved ELSE C4Untouched ]_vars

\* C5: the sync runs git clone (filtered, no checkout), sparse-checkout init
\* --cone, sparse-checkout set docker and checkout master, in that order and
\* nothing else, when the directory supabase does not exist (a command that fails
\* ends the sequence there); it runs one git pull and nothing else when the
\* directory exists.
C5SyncCommands ==
    [][ pc = "clone_supabase_repo" =>
          IF supabase = {}
          THEN /\ IsPrefix(NewCommands, <<GitClone, GitSparseInit, GitSparseSet, GitCheckout>>)
               /\ NewCommands # <<>>
               /\ pc' = "prepare_supabase_env" =>
                    NewCommands = <<GitClone, GitSparseInit, GitSparseSet, GitCheckout>>
          ELSE NewCommands = <<GitPull>> ]_vars

C5Witness ==
    /\ pc = "prepare_supabase_env"
    /\ \E i \in DOMAIN trace : trace[i] = Run("clone_supabase_repo", GitCheckout, 0)

FallbackPrinted(l) ==
    Msg("You may need to manually generate the secret key using the commands:", <<>>) \in l

\* C6: the settings step and the toggle step never end the run: whether the copy
\* of the template, the entropy tool, the substitution tool (on each platform) or
\* the read or write of the manifest fails, the run goes on to the next step, and
\* a failed substitution prints the manual instructions.
C6FailSoft ==
    [][ /\ pc = "generate_searxng_secret_key" =>
             /\ pc' = "check_and_fix_docker_compose_for_searxng"
             /\ exitStatus' = -1
             /\ (\E i \in DOMAIN NewEvents : NewEvents[i].rc # 0) => FallbackPrinted(log')
        /\ pc = "check_and_fix_docker_compose_for_searxng" =>
             /\ pc' = "stop_existing_containers"
             /\ exitStatus' = -1 ]_vars

C6Witness ==
    /\ exitStatus = 0
    /\ FallbackPrinted(log)
    /\ Msg("Error checking/modifying docker-compose.yml for SearXNG", <<>>) \in log
    /\ \E i \in DOMAIN trace :
         IsCommandOf(trace[i], "generate_searxng_secret_key") /\ trace[i].rc # 0

HasProfile(cmd, profile) ==
    \E i \in 1..(Len(cmd) - 1) : cmd[i] = "--profile" /\ cmd[i + 1] = profile

HasPrivateOverlay(cmd) ==
    \E i \in 1..(Len(cmd) - 1) :
       /\ cmd[i] = "-f"
       /\ cmd[i + 1] \in {"docker-compose.override.private.yml",
                          "docker-compose.override.private.supabase.yml"}

\* the first run, with no flags, of a working directory as cloned, completed
\* without any step failing
C7FreshDefaultRun ==
    /\ runs = 1
    /\ args = DefaultArgs
    /\ exitStatus = 0
    /\ \A m \in log : m.msg \notin {"Error creating settings.yml",
                                   "Error generating SearXNG secret key",
                                   "Error checking/modifying docker-compose.yml for SearXNG"}

C7FilesPrepared ==
    /\ \A k \in 1..NPlaceholders : ~Contains(env.content, Placeholder(k))
    /\ \A k \in 1..NPlaceholders : Msg("Updated", KeyOf(Placeholder(k))) \in log
    /\ \E i \in DOMAIN trace : trace[i].cmd = GitClone /\ trace[i].rc = 0
    /\ supabase = ValidCheckout
    /\ supaEnv = env
    /\ settings.exists
    /\ Msg("Created settings.yml from settings-base.yml", <<>>) \in log
    /\ manifest.content = <<Lit("services: searxng: ")>> \o CapDropCommented \o <<NL>>

\* C7, as amended: the first run with default flags of a fresh working directory,
\* no step failing, replaces all placeholders, creates the vendored directory by
\* the clone path, leaves supabase/docker/.env identical to .env, creates
\* settings.yml from the template, comments the directive out, and issues the
\* local AI start with --profile cpu and the private overlay and the Supabase
\* start with the project name and the vendored manifest alone (start_supabase
\* takes no profile and has an overlay for public only).
C7EndToEnd ==
    C7FreshDefaultRun =>
       /\ C7FilesPrepared
       /\ \E i \in DOMAIN trace :
            /\ trace[i].step = "start_local_ai"
            /\ trace[i].cmd = <<"docker", "compose", "-p", "localai", "--profile", "cpu",
                                "-f", "docker-compose.yml",
                                "-f", "docker-compose.override.private.yml", "up", "-d">>
       /\ \E i \in DOMAIN trace :
            /\ trace[i].step = "start_supabase"
            /\ trace[i].cmd = <<"docker", "compose", "-p", "localai",
                                "-f", "supabase/docker/docker-compose.yml", "up", "-d">>

C7Witness ==
    /\ C7FreshDefaultRun
    /\ \E i \in DOMAIN settings.content : settings.content[i].cls = "hex"

\* C7, as claimed: ... and both the Supabase start and the local AI start are
\* issued with the cpu profile and the private overlay.
C7BothStartsCpuPrivate ==
    C7FreshDefaultRun =>
       /\ C7FilesPrepared
       /\ \A i \in DOMAIN trace :
            IsCommandOf(trace[i], "start_supabase") \/ IsCommandOf(trace[i], "start_local_ai") =>
               HasProfile(trace[i].cmd, "cpu") /\ HasPrivateOverlay(trace[i].cmd)

\* C8: the toggle decides "already initialized" exactly when docker ps finds a
\* running SearXNG container and uwsgi.ini is present inside it; with no
\* container, with the marker absent, or with an error of docker ps or docker exec
\* it decides "first run", and then comments out an active directive.
C8Determination ==
    [][ pc = "check_and_fix_docker_compose_for_searxng"
        /\ (\E i \in DOMAIN NewEvents : NewEvents[i].cmd = DockerPs) =>
          LET found == /\ searxng = "initialized"
                       /\ \A i \in DOMAIN NewEvents : NewEvents[i].rc = 0
          IN /\ is_first_run' = ~found
             /\ is_first_run' /\ Contains(manifest.content, CapDrop)
                /\ Msg("Error checking/modifying docker-compose.yml for SearXNG", <<>>) \notin log' =>
                   \A j \in DOMAIN manifest'.content :
                      manifest'.content[j] = CapDrop[1] =>
                         j > 1 /\ manifest'.content[j - 1] = Lit("# ") ]_vars

\* C9: applying the toggle again with the same determination leaves the manifest
\* as the first application left it.
C9Idempotent ==
    [][ runs' = runs + 1 /\ runs >= 1 /\ is_first_run' = is_first_run =>
          manifest' = manifest ]_vars

\* C10: whenever the manifest sync has completed, in any run, the vendored
\* directory has had clone, sparse-checkout init, sparse-checkout set and checkout
\* applied to it.
C10ValidCheckout ==
    pc = "prepare_supabase_env" => supabase = ValidCheckout

====
